---- MODULE Spec2Model ----
(***************************************************************************)
(* The vote client of The 10kb Club (assets/10kb.js): tryvote, get_id,     *)
(* populate_votes and vote_closure, run on the browser's event loop.       *)
(* A step of the model is one run-to-completion turn of the page: a DOM    *)
(* event or the arrival of one fetch response, up to the next await of a   *)
(* network request.                                                        *)
(***************************************************************************)
EXTENDS Integers, Sequences, FiniteSets, TLC

\* ---------------------------------------------------------------- bounds
\* calls of tryvote that clicks start in one page lifetime
MaxCasts == 3
\* calls of tryvote suspended at a fetch at one time
MaxInFlight == 2
\* length of the site_ids list of a /votes/ response
MaxReturned == 2
\* direct calls of tryvote or get_id by a script
MaxCalls == 1
\* calls of populate_votes after the one of DOMContentLoaded
MaxReruns == 1

\* ------------------------------------------------------------- constants
\* json['code'] == 200
OkCode == 200
\* the codes a server answers with in the model
Codes == {OkCode, 500}

\* localStorage.getItem on a missing key, a failed get_id, a missing element
Null == "<null>"
\* the voter ids the /id/ endpoint may mint
VoterIds == {"v1", "v2"}
\* the site ids a /votes/ response may name ("zz" is on no page)
ReturnedIds == {"a", "zz"}

\* An element id is the sequence of its '-'-separated parts.
PlainPage == << <<"vote", "a">>, <<"vote", "b">> >>
NestedPage == << <<"vote", "a">>, <<"vote", "a", "x">>, <<"nav">> >>
PrefixedPage == << <<"vote", "a">>, <<"upvote", "b">> >>
Pages == {PlainPage, NestedPage, PrefixedPage}

\* page: the element ids of the document; store: localStorage's
\* 10kb_voter_id; className, handlers: class and click listeners of each
\* element; tasks: the calls of tryvote and get_id suspended at a fetch;
\* hyd: the call of populate_votes; last: what the latest turn did.
\* ncasts, first, voters record the calls made so far: their number, the
\* first call of tryvote, the voter ids /vote/ requests have carried.
VARIABLES page, store, className, handlers, tasks, hyd, ncasts, first,
          voters, last, server
vars == <<page, store, className, handlers, tasks, hyd, ncasts, first,
          voters, last, server>>

\* ------------------------------------------------------------ DOM helpers
ElemsOf(p) == {p[i] : i \in 1..Len(p)}

\* `vote-${site_id}`
VoteElemId(site_id) == <<"vote", site_id>>

\* document.getElementById(`vote-${site_id}`)
getElementById(p, eid) == IF eid \in ElemsOf(p) THEN eid ELSE Null

\* elem.id.match(/vote\-/): some part that is followed by '-' ends in "vote"
MatchesVote(eid) == \E i \in 1..(Len(eid) - 1) : eid[i] \in {"vote", "upvote"}

\* elem.id.split('-')[1]
SplitId(eid) == eid[2]

\* the scan of populate_votes: ids in document order, duplicates kept
RECURSIVE ScanIds(_)
ScanIds(p) ==
    IF p = <<>> THEN <<>>
    ELSE (IF MatchesVote(Head(p)) THEN <<SplitId(Head(p))>> ELSE <<>>)
         \o ScanIds(Tail(p))

\* function() { tryvote(id, vote); }
vote_closure(id, vote) == [id |-> id, vote |-> vote]

\* (e) => closure()   calls the closure;   (e) => closure   only names it
Listener(closure, invoked) ==
    [id |-> closure.id, vote |-> closure.vote, calls |-> invoked]

\* the tryvote calls one click on the element starts, in listener order
RECURSIVE CalledVotes(_)
CalledVotes(hs) ==
    IF hs = <<>> THEN <<>>
    ELSE (IF Head(hs).calls THEN <<Head(hs).vote>> ELSE <<>>)
         \o CalledVotes(Tail(hs))

ClickVotes(e) == CalledVotes(handlers[e])

SeqToSet(s) == {s[i] : i \in 1..Len(s)}

\* ---------------------------------------------------------------- get_id
\* id && id.length > 0
Truthy(id) == id # Null /\ id # ""

\* (mutant) the cached identity is returned whatever force is
GetIdCachedIgnoresForce(id, force) == Truthy(id)

\* get_id answers from localStorage (no request) exactly then
GetIdCached(id, force) == Truthy(id) /\ force = FALSE

\* (mutant) any parsed body is taken as accepted
IsOkAnyCode(json) == json.kind = "json"

\* json['code'] == 200 on a parsed body
IsOk(json) == json.kind = "json" /\ json.code = OkCode

\* URLSearchParams.append stringifies: null is sent as "null"
ToFormString(v) == IF v = Null THEN "null" ELSE v

\* (mutant) get_id that forgets localStorage.setItem
GetIdResumeNoPersist(id, json) ==
    IF IsOk(json)
    THEN [store |-> id, ret |-> json.voter_id, alerts |-> 0]
    ELSE [store |-> id, ret |-> Null, alerts |-> 1]

\* get_id after its /id/ response (lines 78-89): what it stores, returns
\* and alerts; the voter_id of the body is a string and is stored as it is
GetIdResume(id, json) ==
    IF json.kind = "throw"
    THEN [store |-> id, ret |-> Null, alerts |-> 1]
    ELSE IF IsOk(json)
    THEN [store |-> json.voter_id, ret |-> json.voter_id,
          alerts |-> 0]
    ELSE [store |-> id, ret |-> Null, alerts |-> 1]

\* --------------------------------------------------------------- tryvote
\* vote < 0 || vote > 1
InvalidVote(vote) == vote < 0 \/ vote > 1

\* One record per call of tryvote or get_id: n, its number among the calls;
\* hadId, whether an identity was stored when it began; idReqs, the /id/
\* requests it sent; voter, the voter_id of its /vote/ request (Null: none
\* sent yet).
NewTask(fn, via, site_id, vote, force, id, n) ==
    [fn |-> fn, via |-> via, site |-> site_id, vote |-> vote, force |-> force,
     pc |-> "start", hadId |-> Truthy(id), idReqs |-> 0, voter |-> Null,
     n |-> n]

NoTask == NewTask("none", "none", Null, 0, FALSE, Null, 0)

\* (mutant) tryvote that goes on without an identity
TryvoteSendNoAbort(c, voter_id) ==
    [task |-> [c EXCEPT !.pc = "vote_wait", !.voter = ToFormString(voter_id)],
     alerts |-> IF InvalidVote(c.vote) THEN 1 ELSE 0,
     sent |-> <<"vote">>]

\* tryvote from the return of get_id (line 28) to the fetch of /vote/:
\* null.length throws, an empty id returns, an invalid vote only alerts
TryvoteSend(c, voter_id) ==
    IF voter_id = Null
    THEN [task |-> [c EXCEPT !.pc = "threw"], alerts |-> 0, sent |-> <<>>]
    ELSE IF voter_id = ""
    THEN [task |-> [c EXCEPT !.pc = "returned"], alerts |-> 0, sent |-> <<>>]
    ELSE [task |-> [c EXCEPT !.pc = "vote_wait", !.voter = voter_id],
          alerts |-> IF InvalidVote(c.vote) THEN 1 ELSE 0,
          sent |-> <<"vote">>]

\* tryvote(site_id, vote) up to its first network await
TryvoteStart(via, site_id, vote, id, n) ==
    LET c == NewTask("tryvote", via, site_id, vote, FALSE, id, n) IN
    IF GetIdCached(id, FALSE)
    THEN TryvoteSend(c, id)
    ELSE [task |-> [c EXCEPT !.pc = "id_wait", !.idReqs = 1],
          alerts |-> 0, sent |-> <<"id">>]

\* the listeners of one click, each run to its first network await
RECURSIVE RunListeners(_, _, _, _)
RunListeners(hs, id, n, acc) ==
    IF hs = <<>> THEN acc
    ELSE IF Head(hs).calls
    THEN LET r == TryvoteStart("click", Head(hs).id, Head(hs).vote, id,
                               n + Len(acc.new) + 1)
         IN RunListeners(Tail(hs), id, n,
                         [new |-> Append(acc.new, r.task),
                          alerts |-> acc.alerts + r.alerts,
                          sent |-> acc.sent \o r.sent])
    ELSE RunListeners(Tail(hs), id, n, acc)

\* (mutant) the catch of the /vote/ fetch raises no notice
VoteApplySilentCatch(p, cls, hnd, c, json) ==
    LET elem == getElementById(p, VoteElemId(c.site)) IN
    IF json.kind = "throw"
    THEN [cls |-> cls, hnd |-> hnd, alerts |-> 0, pc |-> "threw"]
    ELSE IF IsOk(json)
    THEN IF c.vote = 1
         THEN IF elem = Null
              THEN [cls |-> cls, hnd |-> hnd, alerts |-> 0, pc |-> "threw"]
              ELSE [cls |-> [cls EXCEPT ![elem] = "upvoted"],
                    hnd |-> [hnd EXCEPT ![elem] =
                       Append(@, Listener(vote_closure(c.site, 0), TRUE))],
                    alerts |-> 0, pc |-> "returned"]
         ELSE IF c.vote = 0
         THEN IF elem = Null
              THEN [cls |-> cls, hnd |-> hnd, alerts |-> 0, pc |-> "threw"]
              ELSE [cls |-> [cls EXCEPT ![elem] = "unvoted"],
                    hnd |-> [hnd EXCEPT ![elem] =
                       Append(@, Listener(vote_closure(c.site, 1), FALSE))],
                    alerts |-> 0, pc |-> "returned"]
         ELSE [cls |-> cls, hnd |-> hnd, alerts |-> 0, pc |-> "returned"]
    ELSE [cls |-> cls, hnd |-> hnd, alerts |-> 1, pc |-> "returned"]

\* (mutant) a rejected vote leaves the element without listeners
VoteApplyUnbindsOnReject(p, cls, hnd, c, json) ==
    LET elem == getElementById(p, VoteElemId(c.site)) IN
    IF json.kind = "throw"
    THEN [cls |-> cls, hnd |-> hnd, alerts |-> 1, pc |-> "threw"]
    ELSE IF IsOk(json)
    THEN IF c.vote = 1
         THEN IF elem = Null
              THEN [cls |-> cls, hnd |-> hnd, alerts |-> 0, pc |-> "threw"]
              ELSE [cls |-> [cls EXCEPT ![elem] = "upvoted"],
                    hnd |-> [hnd EXCEPT ![elem] =
                       Append(@, Listener(vote_closure(c.site, 0), TRUE))],
                    alerts |-> 0, pc |-> "returned"]
         ELSE IF c.vote = 0
         THEN IF elem = Null
              THEN [cls |-> cls, hnd |-> hnd, alerts |-> 0, pc |-> "threw"]
              ELSE [cls |-> [cls EXCEPT ![elem] = "unvoted"],
                    hnd |-> [hnd EXCEPT ![elem] =
                       Append(@, Listener(vote_closure(c.site, 1), FALSE))],
                    alerts |-> 0, pc |-> "returned"]
         ELSE [cls |-> cls, hnd |-> hnd, alerts |-> 0, pc |-> "returned"]
    ELSE [cls |-> cls,
          hnd |-> IF elem = Null THEN hnd ELSE [hnd EXCEPT ![elem] = <<>>],
          alerts |-> 1, pc |-> "returned"]

\* tryvote after its /vote/ response (lines 45-63)
VoteApply(p, cls, hnd, c, json) ==
    LET elem == getElementById(p, VoteElemId(c.site)) IN
    IF json.kind = "throw"
    THEN [cls |-> cls, hnd |-> hnd, alerts |-> 1, pc |-> "threw"]
    ELSE IF IsOk(json)
    THEN IF c.vote = 1
         THEN IF elem = Null
              THEN [cls |-> cls, hnd |-> hnd, alerts |-> 0, pc |-> "threw"]
              ELSE [cls |-> [cls EXCEPT ![elem] = "upvoted"],
                    hnd |-> [hnd EXCEPT ![elem] =
                       Append(@, Listener(vote_closure(c.site, 0), TRUE))],
                    alerts |-> 0, pc |-> "returned"]
         ELSE IF c.vote = 0
         THEN IF elem = Null
              THEN [cls |-> cls, hnd |-> hnd, alerts |-> 0, pc |-> "threw"]
              ELSE [cls |-> [cls EXCEPT ![elem] = "unvoted"],
                    hnd |-> [hnd EXCEPT ![elem] =
                       Append(@, Listener(vote_closure(c.site, 1), FALSE))],
                    alerts |-> 0, pc |-> "returned"]
         ELSE [cls |-> cls, hnd |-> hnd, alerts |-> 0, pc |-> "returned"]
    ELSE [cls |-> cls, hnd |-> hnd, alerts |-> 1, pc |-> "returned"]

\* -------------------------------------------------------- populate_votes
\* lines 105-111: every scanned id is shown unvoted and bound to vote 1
RECURSIVE BindLoop(_, _, _, _)
BindLoop(p, ids, cls, hnd) ==
    IF ids = <<>> THEN [cls |-> cls, hnd |-> hnd, threw |-> FALSE]
    ELSE LET elem == getElementById(p, VoteElemId(Head(ids))) IN
         IF elem = Null
         THEN [cls |-> cls, hnd |-> hnd, threw |-> TRUE]
         ELSE BindLoop(p, Tail(ids),
                [cls EXCEPT ![elem] = "unvoted"],
                [hnd EXCEPT ![elem] =
                    Append(@, Listener(vote_closure(Head(ids), 1), TRUE))])

\* (mutant) an element that already holds a vote-0 listener is passed over
RECURSIVE ApplyLoopSkipsBound(_, _, _, _)
ApplyLoopSkipsBound(p, ids, cls, hnd) ==
    IF ids = <<>> THEN [cls |-> cls, hnd |-> hnd, threw |-> FALSE]
    ELSE LET elem == getElementById(p, VoteElemId(Head(ids))) IN
         IF elem = Null
         THEN [cls |-> cls, hnd |-> hnd, threw |-> TRUE]
         ELSE IF \E k \in 1..Len(hnd[elem]) : hnd[elem][k].vote = 0
         THEN ApplyLoopSkipsBound(p, Tail(ids), cls, hnd)
         ELSE ApplyLoopSkipsBound(p, Tail(ids),
                [cls EXCEPT ![elem] = "upvoted"],
                [hnd EXCEPT ![elem] =
                    Append(@, Listener(vote_closure(Head(ids), 0), TRUE))])

\* lines 126-131: every returned id is shown upvoted and bound to vote 0
RECURSIVE ApplyLoop(_, _, _, _)
ApplyLoop(p, ids, cls, hnd) ==
    IF ids = <<>> THEN [cls |-> cls, hnd |-> hnd, threw |-> FALSE]
    ELSE LET elem == getElementById(p, VoteElemId(Head(ids))) IN
         IF elem = Null
         THEN [cls |-> cls, hnd |-> hnd, threw |-> TRUE]
         ELSE ApplyLoop(p, Tail(ids),
                [cls EXCEPT ![elem] = "upvoted"],
                [hnd EXCEPT ![elem] =
                    Append(@, Listener(vote_closure(Head(ids), 0), TRUE))])

\* json['site_ids'] can be iterated (line 126 reads it whatever the code)
VotesUsable(json) == json.kind = "json" /\ json.has_ids

\* (mutant) populate_votes without its try/catch
VotesApplyUncaught(p, cls, hnd, json) ==
    LET r == IF VotesUsable(json)
             THEN ApplyLoop(p, json.site_ids, cls, hnd)
             ELSE [cls |-> cls, hnd |-> hnd, threw |-> TRUE]
    IN [cls |-> r.cls, hnd |-> r.hnd, caught |-> FALSE, alerts |-> 0,
        pc |-> IF r.threw THEN "threw" ELSE "returned"]

\* populate_votes after its /votes/ response (lines 124-135): every throw
\* is caught and logged to the console
VotesApply(p, cls, hnd, json) ==
    LET r == IF VotesUsable(json)
             THEN ApplyLoop(p, json.site_ids, cls, hnd)
             ELSE [cls |-> cls, hnd |-> hnd, threw |-> TRUE]
    IN [cls |-> r.cls, hnd |-> r.hnd, caught |-> r.threw, alerts |-> 0,
        pc |-> "returned"]

\* (mutant) populate_votes that asks get_id for the voter id
PopulateStartForcesId(p, id, cls, hnd) ==
    LET ids == ScanIds(p)
        b == BindLoop(p, ids, cls, hnd)
    IN [cls |-> b.cls, hnd |-> b.hnd, store |-> id,
        pc |-> IF b.threw THEN "threw" ELSE "wait",
        ids |-> ids, voter |-> ToFormString(id),
        sent |-> IF GetIdCached(id, FALSE) THEN <<"votes">>
                 ELSE <<"id", "votes">>]

\* populate_votes up to its fetch of /votes/ (lines 93-123)
PopulateStart(p, id, cls, hnd) ==
    LET ids == ScanIds(p)
        b == BindLoop(p, ids, cls, hnd)
    IN IF b.threw
       THEN [cls |-> b.cls, hnd |-> b.hnd, store |-> id, pc |-> "threw",
             ids |-> <<>>, voter |-> Null, sent |-> <<>>]
       ELSE [cls |-> b.cls, hnd |-> b.hnd, store |-> id, pc |-> "wait",
             ids |-> ids, voter |-> ToFormString(id), sent |-> <<"votes">>]

\* ------------------------------------------------------------- responses
\* "throw": fetch rejects or the body does not parse; "json": a parsed body
IdResponses ==
    {[kind |-> "throw", code |-> 0, voter_id |-> ""]}
    \cup {[kind |-> "json", code |-> OkCode, voter_id |-> v] : v \in VoterIds}
    \cup {[kind |-> "json", code |-> c, voter_id |-> ""] : c \in Codes \ {OkCode}}

VoteResponses ==
    {[kind |-> "throw", code |-> 0]}
    \cup {[kind |-> "json", code |-> c] : c \in Codes}

RECURSIVE NoRepeat(_)
NoRepeat(s) ==
    s = <<>> \/ (Head(s) \notin SeqToSet(Tail(s)) /\ NoRepeat(Tail(s)))

IdLists ==
    {s \in UNION {[1..n -> ReturnedIds] : n \in 0..MaxReturned} : NoRepeat(s)}

VotesResponses ==
    {[kind |-> "throw", code |-> 0, has_ids |-> FALSE, site_ids |-> <<>>]}
    \cup {[kind |-> "json", code |-> c, has_ids |-> FALSE, site_ids |-> <<>>]
            : c \in Codes}
    \cup {[kind |-> "json", code |-> c, has_ids |-> TRUE, site_ids |-> s]
            : c \in Codes, s \in IdLists}

Outcome(json) ==
    IF json.kind = "json"
    THEN (IF json.code = OkCode THEN "ok" ELSE "reject")
    ELSE json.kind

\* ------------------------------------------------------------------ Init
NoJson == [kind |-> "none"]

\* what one turn did: the task it resumed or the tasks it began, the body
\* it received, the alerts it raised, the requests it sent, what get_id
\* returned and how the resumed call ended
Event(kind, task, new, json, alerts, sent, ret, pc) ==
    [kind |-> kind, task |-> task, new |-> new, json |-> json,
     alerts |-> alerts, sent |-> sent, ret |-> ret, pc |-> pc]

NoFirst == [site |-> Null, hadId |-> FALSE, voter |-> Null]

\* the server before the page has sent anything: no vote record, no
\* identity issued
NoServer == [records |-> {}, issued |-> {}, changed |-> FALSE]

\* the page after construction
InitClient ==
    /\ page \in Pages
    /\ store \in {Null, "v1"}
    /\ className = [e \in ElemsOf(page) |-> "none"]
    /\ handlers = [e \in ElemsOf(page) |-> <<>>]
    /\ tasks = <<>>
    /\ hyd = [pc |-> "idle", ids |-> <<>>, voter |-> Null, upvoted |-> {},
              runs |-> 0, shown |-> [e \in ElemsOf(page) |-> "none"],
              before |-> [e \in ElemsOf(page) |-> "none"]]
    /\ ncasts = 0
    /\ first = NoFirst
    /\ voters = {}
    /\ last = Event("init", NoTask, <<>>, NoJson, 0, <<>>, Null, "none")

\* with the responses of the server left open, its state plays no part
Init == InitClient /\ server = NoServer

\* --------------------------------------------------------------- actions
Waiting(ts) == SelectSeq(ts, LAMBDA t : t.pc \in {"id_wait", "vote_wait"})

RemoveAt(s, i) == SubSeq(s, 1, i - 1) \o SubSeq(s, i + 1, Len(s))

\* the resumed task leaves the list when it ends, else it is updated
Resumed(ts, i, t) ==
    IF t.pc \in {"id_wait", "vote_wait"} THEN [ts EXCEPT ![i] = t]
    ELSE RemoveAt(ts, i)

SentVoters(ts) == {ts[i].voter : i \in 1..Len(ts)} \ {Null}

\* the first call of tryvote: its site, and its voter_id once it has sent
\* its /vote/ request
FirstOf(f, ts) ==
    IF \E i \in 1..Len(ts) : ts[i].n = 1 /\ ts[i].fn = "tryvote"
    THEN LET t == ts[CHOOSE i \in 1..Len(ts) : ts[i].n = 1] IN
         [site |-> t.site, hadId |-> t.hadId, voter |-> t.voter]
    ELSE f

\* window 'DOMContentLoaded' -> populate_votes, up to the fetch of /votes/
DOMContentLoaded ==
    /\ hyd.pc = "idle"
    /\ LET r == PopulateStart(page, store, className, handlers)
       IN /\ className' = r.cls
          /\ handlers' = r.hnd
          /\ store' = r.store
          /\ hyd' = [hyd EXCEPT !.pc = r.pc, !.ids = r.ids, !.voter = r.voter,
                                !.shown = r.cls]
          /\ last' = Event("hydrate", NoTask, <<>>, NoJson, 0, r.sent, Null,
                           r.pc)
    /\ UNCHANGED <<page, tasks, ncasts, first, voters, server>>

\* the /votes/ response arrives
VotesResponse(json) ==
    /\ hyd.pc = "wait"
    /\ LET r == VotesApply(page, className, handlers, json)
       IN /\ className' = r.cls
          /\ handlers' = r.hnd
          /\ hyd' = [hyd EXCEPT !.pc = r.pc, !.shown = r.cls,
                       !.upvoted = {e \in ElemsOf(page) :
                                      r.hnd[e] # handlers[e]}]
          /\ last' = Event("votes_resp", NoTask, <<>>, json, r.alerts, <<>>,
                           Null, IF r.caught THEN "caught" ELSE "applied")
    /\ UNCHANGED <<page, store, tasks, ncasts, first, voters, server>>

\* the user clicks an element that has listeners
Click(e) ==
    /\ handlers[e] # <<>>
    /\ ncasts + Len(ClickVotes(e)) <= MaxCasts
    /\ Len(tasks) + Len(ClickVotes(e)) <= MaxInFlight
    /\ LET r == RunListeners(handlers[e], store, ncasts,
                             [new |-> <<>>, alerts |-> 0, sent |-> <<>>])
       IN /\ tasks' = tasks \o Waiting(r.new)
          /\ ncasts' = ncasts + Len(r.new)
          /\ first' = FirstOf(first, r.new)
          /\ voters' = voters \cup SentVoters(r.new)
          /\ last' = Event("click", NoTask, r.new, NoJson, r.alerts, r.sent,
                           Null, "none")
    /\ UNCHANGED <<page, store, className, handlers, hyd, server>>

\* the /id/ response of a call of tryvote arrives: get_id resumes and
\* returns, then tryvote goes on to its fetch of /vote/
IdTurn(i, json) ==
    /\ tasks[i].pc = "id_wait"
    /\ tasks[i].fn = "tryvote"
    /\ LET g == GetIdResume(store, json)
           t == TryvoteSend(tasks[i], g.ret)
       IN /\ store' = g.store
          /\ tasks' = Resumed(tasks, i, t.task)
          /\ first' = FirstOf(first, <<t.task>>)
          /\ voters' = voters \cup SentVoters(<<t.task>>)
          /\ last' = Event("id_resp", tasks[i], <<>>, json,
                           g.alerts + t.alerts, t.sent, g.ret, t.task.pc)
    /\ UNCHANGED <<page, className, handlers, hyd, ncasts>>

IdResponse(i, json) == IdTurn(i, json) /\ UNCHANGED server

\* the /vote/ response of a call of tryvote arrives
VoteTurn(i, json) ==
    /\ tasks[i].pc = "vote_wait"
    /\ LET r == VoteApply(page, className, handlers, tasks[i], json)
       IN /\ className' = r.cls
          /\ handlers' = r.hnd
          /\ tasks' = RemoveAt(tasks, i)
          /\ last' = Event("vote_resp", tasks[i], <<>>, json, r.alerts, <<>>,
                           Null, r.pc)
    /\ UNCHANGED <<page, store, hyd, ncasts, first, voters>>

VoteResponse(i, json) == VoteTurn(i, json) /\ UNCHANGED server

Next ==
    \/ DOMContentLoaded
    \/ \E json \in VotesResponses : VotesResponse(json)
    \/ \E e \in ElemsOf(page) : Click(e)
    \/ \E i \in 1..Len(tasks), json \in IdResponses : IdResponse(i, json)
    \/ \E i \in 1..Len(tasks), json \in VoteResponses : VoteResponse(i, json)

Spec == Init /\ [][Next]_vars

\* ------------------------------------------------ the functions as an API
\* the values a script may pass
ApiSites == {"a", "zz"}
ApiVotes == {-1, 0, 1, 2}

\* a script calls the global function tryvote(site_id, vote) directly
CallTryvote(site_id, vote) ==
    /\ ncasts < MaxCalls
    /\ LET r == TryvoteStart("call", site_id, vote, store, ncasts + 1)
       IN /\ tasks' = tasks \o Waiting(<<r.task>>)
          /\ ncasts' = ncasts + 1
          /\ first' = FirstOf(first, <<r.task>>)
          /\ voters' = voters \cup SentVoters(<<r.task>>)
          /\ last' = Event("call", NoTask, <<r.task>>, NoJson, r.alerts,
                           r.sent, Null, "none")
    /\ UNCHANGED <<page, store, className, handlers, hyd, server>>

\* get_id(force) up to its return or its fetch of /id/ (lines 66-76)
GetIdStart(id, force, n) ==
    LET c == NewTask("get_id", "call", Null, 0, force, id, n) IN
    IF GetIdCached(id, force)
    THEN [task |-> [c EXCEPT !.pc = "returned"], ret |-> id, sent |-> <<>>]
    ELSE [task |-> [c EXCEPT !.pc = "id_wait", !.idReqs = 1], ret |-> Null,
          sent |-> <<"id">>]

\* a script calls the global function get_id(force) directly
CallGetId(force) ==
    /\ ncasts < MaxCalls
    /\ LET r == GetIdStart(store, force, ncasts + 1)
       IN /\ tasks' = tasks \o Waiting(<<r.task>>)
          /\ ncasts' = ncasts + 1
          /\ last' = Event("get_id", NoTask, <<r.task>>, NoJson, 0, r.sent,
                           r.ret, r.task.pc)
    /\ UNCHANGED <<page, store, className, handlers, hyd, first, voters,
                   server>>

\* the /id/ response of a direct call of get_id arrives
GetIdResponse(i, json) ==
    /\ tasks[i].pc = "id_wait"
    /\ tasks[i].fn = "get_id"
    /\ LET g == GetIdResume(store, json)
       IN /\ store' = g.store
          /\ tasks' = RemoveAt(tasks, i)
          /\ last' = Event("get_id_resp", tasks[i], <<>>, json, g.alerts,
                           <<>>, g.ret, "returned")
    /\ UNCHANGED <<page, className, handlers, hyd, ncasts, first, voters,
                   server>>

\* the page driven by scripts that call tryvote and get_id directly
NextApi ==
    \/ DOMContentLoaded
    \/ \E json \in VotesResponses : VotesResponse(json)
    \/ \E i \in 1..Len(tasks), json \in IdResponses : IdResponse(i, json)
    \/ \E i \in 1..Len(tasks), json \in VoteResponses : VoteResponse(i, json)
    \/ \E s \in ApiSites, v \in ApiVotes : CallTryvote(s, v)
    \/ \E f \in BOOLEAN : CallGetId(f)
    \/ \E i \in 1..Len(tasks), json \in IdResponses : GetIdResponse(i, json)

InitApi == Init /\ page = PlainPage

SpecApi == InitApi /\ [][NextApi]_vars

\* the site ids populate_votes finds on the page
Discovered == SeqToSet(ScanIds(page))

\* the page with its clicks and a script that, before the first click,
\* calls tryvote for a site of the page with a vote above 1
NextAll ==
    \/ DOMContentLoaded
    \/ \E json \in VotesResponses : VotesResponse(json)
    \/ \E e \in ElemsOf(page) : Click(e)
    \/ \E s \in Discovered, v \in { w \in ApiVotes : w > 1 } :
          ncasts = 0 /\ CallTryvote(s, v)
    \/ \E i \in 1..Len(tasks), json \in IdResponses : IdResponse(i, json)
    \/ \E i \in 1..Len(tasks), json \in VoteResponses : VoteResponse(i, json)

SpecAll == InitApi /\ [][NextAll]_vars

\* ------------------------------------------------- the page and a server
\* The server keeps at most one vote record per (voter, site), issues
\* fresh identities and answers each request when it arrives; its answer
\* reaches the page in the same step.

\* a list without its repeated entries, first occurrences kept
RECURSIVE Distinct(_)
Distinct(s) ==
    IF s = <<>> THEN <<>>
    ELSE <<Head(s)>> \o SelectSeq(Distinct(Tail(s)), LAMBDA x : x # Head(s))

\* /votes/: the requested sites the voter has upvoted
AnswerVotes(srv, voter, ids) ==
    [kind |-> "json", code |-> OkCode, has_ids |-> TRUE,
     site_ids |-> SelectSeq(Distinct(ids),
                            LAMBDA x : <<voter, x>> \in srv.records)]

\* /vote/ changes the records when it adds a missing record or removes a
\* present one
Effective(srv, t) ==
    \/ t.vote = 1 /\ <<t.voter, t.site>> \notin srv.records
    \/ t.vote = 0 /\ <<t.voter, t.site>> \in srv.records

ApplyVote(srv, t) ==
    IF ~Effective(srv, t) THEN srv
    ELSE [srv EXCEPT !.changed = TRUE,
                     !.records = IF t.vote = 1 THEN @ \cup {<<t.voter, t.site>>}
                                 ELSE @ \ {<<t.voter, t.site>>}]

\* the server of a returning visitor has issued the stored identity and
\* may hold a vote of it; a first visit finds the server empty
InitServer ==
    /\ InitClient
    /\ server \in IF store = Null THEN {NoServer}
                  ELSE {[records |-> r, issued |-> {store}, changed |-> FALSE] :
                          r \in {{}, {<<store, "a">>}}}

\* populate_votes is called again after its first run has ended
PopulateAgain ==
    /\ hyd.pc \in {"returned", "threw"}
    /\ hyd.runs < MaxReruns
    /\ LET r == PopulateStart(page, store, className, handlers)
       IN /\ className' = r.cls
          /\ handlers' = r.hnd
          /\ store' = r.store
          /\ hyd' = [hyd EXCEPT !.pc = r.pc, !.ids = r.ids, !.voter = r.voter,
                                !.runs = @ + 1, !.before = hyd.shown,
                                !.shown = r.cls]
          /\ last' = Event("hydrate", NoTask, <<>>, NoJson, 0, r.sent, Null,
                           r.pc)
    /\ UNCHANGED <<page, tasks, ncasts, first, voters, server>>

\* the server answers the /votes/ request
ServedVotes == VotesResponse(AnswerVotes(server, hyd.voter, hyd.ids))

\* the server answers an /id/ request with an identity it has not issued
\* before, or refuses when it has none left
ServedId(i) ==
    IF VoterIds \subseteq server.issued
    THEN /\ IdTurn(i, [kind |-> "json", code |-> 500, voter_id |-> ""])
         /\ UNCHANGED server
    ELSE \E v \in VoterIds \ server.issued :
           /\ IdTurn(i, [kind |-> "json", code |-> OkCode, voter_id |-> v])
           /\ server' = [server EXCEPT !.issued = @ \cup {v}]

\* the server applies a /vote/ request and answers it; a request that
\* changes nothing (a second upvote, a removal of no record) is accepted
\* or refused
ServedVote(i) ==
    /\ i \in 1..Len(tasks) /\ tasks[i].pc = "vote_wait"
    /\ \E c \in (IF Effective(server, tasks[i]) THEN {OkCode} ELSE Codes) :
         VoteTurn(i, [kind |-> "json", code |-> c])
    /\ server' = ApplyVote(server, tasks[i])

NextServer ==
    \/ DOMContentLoaded
    \/ PopulateAgain
    \/ ServedVotes
    \/ \E e \in ElemsOf(page) : Click(e)
    \/ \E i \in 1..Len(tasks) : ServedId(i)
    \/ \E i \in 1..Len(tasks) : ServedVote(i)

SpecServer == InitServer /\ [][NextServer]_vars

\* ======================================================== the properties
\* every scanned id names an element of the page
ScanResolves(p) ==
    \A s \in SeqToSet(ScanIds(p)) : getElementById(p, VoteElemId(s)) # Null

\* the votes a click on the element asks for, in the state given by hnd
Asked(hnd, e) == SeqToSet(CalledVotes(hnd[e]))

RejectBody(json) == json.kind = "json" /\ json.code # OkCode

\* C1: toggle symmetry. On a page hydrated with the site unvoted, when a
\* confirmed vote 0 follows a confirmed vote 1 the site is shown unvoted
\* again and the next click on its control asks for vote 1 and not for 0.
C1_ToggleSymmetry ==
    [][\A s \in Discovered :
         LET e == VoteElemId(s) IN
         (/\ e \in ElemsOf(page)
          /\ hyd.pc = "returned" /\ e \notin hyd.upvoted
          /\ className[e] = "upvoted"
          /\ last'.kind = "vote_resp" /\ IsOk(last'.json)
          /\ last'.task.site = s /\ last'.task.vote = 0)
         => (className'[e] = "unvoted" /\ Asked(handlers', e) = {1})]_vars

\* C2: a /vote/ response with a code other than 200 leaves every class and
\* every listener list as it was and raises a notice; nor does any earlier
\* turn of tryvote (its start, its /id/ response) change them.
C2_RejectionLeavesState ==
    [][/\ (last'.kind = "vote_resp" /\ RejectBody(last'.json))
          => (className' = className /\ handlers' = handlers
              /\ last'.alerts >= 1)
       /\ (last'.kind \in {"click", "id_resp"})
          => (className' = className /\ handlers' = handlers)]_vars

\* a vote 0 on a site shown upvoted has just been rejected
C2_Witness ==
    /\ last.kind = "vote_resp" /\ RejectBody(last.json)
    /\ last.task.vote = 0
    /\ className[VoteElemId(last.task.site)] = "upvoted"

\* C3: a call of tryvote with a vote outside {0, 1} never has a /vote/
\* request in flight, and no turn of it changes a class.
C3_LocalValidation ==
    [][/\ \A i \in 1..Len(tasks') :
            InvalidVote(tasks'[i].vote) => tasks'[i].pc # "vote_wait"
       /\ (last'.kind \in {"id_resp", "vote_resp"}
           /\ InvalidVote(last'.task.vote)) => className' = className]_vars

\* C4: lazy identity. A call of tryvote that begins with no identity stored
\* sends one /id/ request and no /vote/ request before the /id/ response;
\* its /vote/ request leaves on a code-200 /id/ response and carries the
\* voter_id of that body. A call that begins with an identity stored sends
\* no /id/ request; the second call, made on another site after the first
\* call has sent its /vote/ request, carries the first call's voter_id.
C4_LazyIdentity ==
    [][/\ \A i \in 1..Len(last'.new) :
            LET t == last'.new[i] IN
            t.fn = "tryvote" =>
              IF Truthy(store)
              THEN t.idReqs = 0 /\ t.voter = store
              ELSE t.idReqs = 1 /\ t.pc = "id_wait" /\ t.voter = Null
                   /\ "vote" \notin SeqToSet(last'.sent)
       /\ (last'.kind = "id_resp" /\ last'.sent # <<>>)
          => (/\ IsOk(last'.json) /\ last'.task.idReqs = 1
              /\ last'.sent = <<"vote">>
              /\ voters' = voters \cup {last'.json.voter_id})
       /\ (/\ last'.kind = "click" /\ ncasts = 1
           /\ ~first.hadId /\ first.voter # Null)
          => \A i \in 1..Len(last'.new) :
               LET t == last'.new[i] IN
               (t.n = 2 /\ t.site # first.site)
               => (t.idReqs = 0 /\ t.voter = first.voter
                   /\ "id" \notin SeqToSet(last'.sent))]_vars

\* the second call, on another site, has just sent its /vote/ request with
\* the identity the first call had issued
C4_Witness ==
    /\ last.kind = "click" /\ ncasts = 2 /\ Len(last.new) = 1
    /\ ~first.hadId /\ first.voter # Null
    /\ last.new[1].site # first.site
    /\ last.new[1].voter = first.voter
    /\ last.sent = <<"vote">>

\* C5: when the /id/ request of a call of tryvote throws or is answered
\* with a code other than 200, get_id returns null, the stored identity is
\* kept, a notice is raised, and tryvote ends there: it sends no /vote/
\* request and changes no class and no listener.
C5_IssuanceFailureAborts ==
    [][(last'.kind = "id_resp" /\ ~IsOk(last'.json))
       => (/\ last'.ret = Null /\ store' = store /\ last'.alerts >= 1
           /\ last'.sent = <<>> /\ voters' = voters
           /\ last'.pc \in {"threw", "returned"}
           /\ Len(tasks') = Len(tasks) - 1
           /\ className' = className /\ handlers' = handlers)]_vars

\* an /id/ request has just failed and ended its call of tryvote
C5_Witness ==
    /\ last.kind = "id_resp" /\ ~IsOk(last.json)
    /\ last.task.fn = "tryvote" /\ last.pc = "threw"
    /\ last.alerts = 1

\* C6: populate_votes shows every scanned site unvoted before it fetches;
\* when the /votes/ request throws or its body has no site_ids to iterate,
\* the response changes no class and no listener, raises no notice and
\* populate_votes returns (nothing escapes); the sites are shown unvoted
\* when no cast has been made meanwhile, and from then on a click on any
\* scanned site calls tryvote with vote 1.
C6_BulkFailureDegrades ==
    [][/\ (last'.kind = "hydrate" /\ hyd'.pc = "wait")
          => \A s \in SeqToSet(hyd'.ids) :
               className'[VoteElemId(s)] = "unvoted"
       /\ (last'.kind = "votes_resp" /\ ~VotesUsable(last'.json))
          => (/\ className' = className /\ handlers' = handlers
              /\ last'.alerts = 0 /\ hyd'.pc = "returned"
              /\ \A s \in SeqToSet(hyd.ids) :
                   ncasts = 0 => className'[VoteElemId(s)] = "unvoted")
       /\ (hyd'.pc = "returned" /\ hyd'.upvoted = {})
          => \A s \in SeqToSet(hyd'.ids) :
               1 \in Asked(handlers', VoteElemId(s))]_vars

\* the /votes/ request has just failed on a page with two sites, both shown
\* unvoted and both bound to vote 1
C6_Witness ==
    /\ last.kind = "votes_resp" /\ ~VotesUsable(last.json)
    /\ hyd.pc = "returned" /\ Len(hyd.ids) = 2
    /\ \A s \in SeqToSet(hyd.ids) :
         /\ className[VoteElemId(s)] = "unvoted"
         /\ ClickVotes(VoteElemId(s)) # <<>>

\* C7: when populate_votes reaches its fetch it sends one /votes/ request
\* with every scanned id and the stored (or absent) voter id; after a
\* code-200 response with a site_ids list (and no cast made meanwhile) a
\* scanned site is shown upvoted exactly when its id is in the list,
\* whatever the other ids of the list are.
C7_HydrationOutcome ==
    [][/\ (last'.kind = "hydrate" /\ hyd'.pc = "wait")
          => (/\ last'.sent = <<"votes">>
              /\ SeqToSet(hyd'.ids) = Discovered
              /\ hyd'.voter = ToFormString(store))
       /\ (/\ last'.kind = "votes_resp" /\ IsOk(last'.json)
           /\ last'.json.has_ids /\ ncasts = 0)
          => \A s \in SeqToSet(hyd.ids) :
               (className'[VoteElemId(s)] = "upvoted")
               <=> (s \in SeqToSet(last'.json.site_ids))]_vars

\* C8: a /vote/, /id/ or /votes/ response whose code is not 200 changes no
\* class and not the stored identity.
C8_OkCodeSoleSuccess ==
    [][(last'.kind \in {"vote_resp", "id_resp", "votes_resp"}
        /\ RejectBody(last'.json))
       => (className' = className /\ store' = store)]_vars

\* C9: neither turn of populate_votes sends an /id/ request or writes the
\* stored identity; on a page whose scanned ids all name elements the
\* /votes/ request is sent with the stored or absent identity ("null").
C9_HydrationIssuesNoIdentity ==
    [][(last'.kind \in {"hydrate", "votes_resp"})
       => (/\ store' = store
           /\ "id" \notin SeqToSet(last'.sent)
           /\ (last'.kind = "hydrate" /\ ScanResolves(page))
              => (/\ last'.sent = <<"votes">>
                  /\ hyd'.voter = ToFormString(store)))]_vars

\* populate_votes has just sent /votes/ with no identity stored
C9_Witness ==
    /\ last.kind = "hydrate" /\ store = Null
    /\ last.sent = <<"votes">> /\ hyd.voter = "null"

\* C10: get_id(force) with an identity stored and force false returns the
\* stored identity and sends nothing; otherwise it sends one /id/ request,
\* and on a code-200 response it stores the voter_id of the body and
\* returns that value.
C10_GetId ==
    [][/\ last'.kind = "get_id"
          => LET t == last'.new[1] IN
             IF Truthy(store) /\ ~t.force
             THEN (/\ last'.ret = store /\ last'.sent = <<>>
                   /\ t.pc = "returned" /\ store' = store)
             ELSE (/\ last'.sent = <<"id">> /\ t.idReqs = 1
                   /\ t.pc = "id_wait" /\ tasks' = Append(tasks, t))
       /\ (last'.kind \in {"get_id_resp", "id_resp"} /\ IsOk(last'.json))
          => (/\ store' = last'.json.voter_id
              /\ last'.ret = last'.json.voter_id)]_vars

\* a forced get_id has just replaced the stored identity by the issued one
C10_Witness ==
    /\ last.kind = "get_id_resp" /\ IsOk(last.json)
    /\ last.task.force /\ last.task.hadId
    /\ store = "v2" /\ last.ret = "v2"

\* C11: the site ids of the /votes/ request hold no id twice.
C11_NoDuplicateIds ==
    hyd.pc \in {"wait", "returned"} => NoRepeat(hyd.ids)

\* C13: a control shown upvoted is bound to ask for vote 0 only, a control
\* shown unvoted to ask for vote 1 only.
C13_BindingMatchesState ==
    \A e \in ElemsOf(page) :
      /\ className[e] = "upvoted" => Asked(handlers, e) = {0}
      /\ className[e] = "unvoted" => Asked(handlers, e) = {1}

\* C14: a stored identity is never replaced by another, and all /vote/
\* requests of the page carry one voter_id.
C14_IdentityStable ==
    [][/\ Truthy(store) => store' = store
       /\ Cardinality(voters') <= 1]_vars

\* a confirmed vote has appended a listener to the element: one that asks
\* for vote 0, or the inert one of a confirmed removal
CastConfirmedOn(hnd, e) ==
    \E k \in 1..Len(hnd[e]) : hnd[e][k].vote = 0 \/ ~hnd[e][k].calls

\* C15: the /votes/ response leaves the class of every site on which a
\* cast was confirmed while the request was in flight; and a class changes
\* only in the two turns of populate_votes or on a code-200 /vote/
\* response for that site.
C15_HydrationCastDisjoint ==
    [][/\ last'.kind = "votes_resp"
          => \A s \in SeqToSet(hyd.ids) :
               CastConfirmedOn(handlers, VoteElemId(s))
               => className'[VoteElemId(s)] = className[VoteElemId(s)]
       /\ \A e \in ElemsOf(page) :
            className'[e] # className[e]
            => \/ last'.kind \in {"hydrate", "votes_resp"}
               \/ (/\ last'.kind = "vote_resp" /\ IsOk(last'.json)
                   /\ VoteElemId(last'.task.site) = e)]_vars

\* C17: when the /vote/ fetch throws, no class and no listener changes, a
\* notice is raised, the call ends and the turn sends nothing; requests
\* leave only in a click, in populate_votes, or when a call started by a
\* click receives its /id/ response.
C17_TransportFailureOnCast ==
    [][/\ (last'.kind = "vote_resp" /\ last'.json.kind = "throw")
          => (/\ className' = className /\ handlers' = handlers
              /\ last'.alerts >= 1 /\ last'.sent = <<>>
              /\ last'.pc = "threw"
              /\ Len(tasks') = Len(tasks) - 1
              /\ \A i \in 1..Len(tasks') : tasks'[i].n # last'.task.n)
       /\ last'.sent # <<>>
          => \/ last'.kind \in {"click", "hydrate"}
             \/ (last'.kind = "id_resp" /\ last'.task.via = "click")]_vars

\* the /vote/ fetch of a call has just thrown
C17_Witness ==
    /\ last.kind = "vote_resp" /\ last.json.kind = "throw"
    /\ last.pc = "threw" /\ last.alerts = 1
    /\ className[VoteElemId(last.task.site)] = "unvoted"

\* C18: whatever failed before, every control that populate_votes bound
\* keeps a listener that asks for the vote opposite to the state shown; a
\* click on it starts a call of tryvote that sends a request; and a
\* code-200 /vote/ response to such a call sets the class of its site to
\* the state voted for.
C18_StaysInteractive ==
    [][/\ \A e \in ElemsOf(page) :
            handlers[e] # <<>>
            => /\ className'[e] = "unvoted" => 1 \in Asked(handlers', e)
               /\ className'[e] = "upvoted" => 0 \in Asked(handlers', e)
       /\ last'.kind = "click" => (last'.new # <<>> /\ last'.sent # <<>>)
       /\ (/\ last'.kind = "vote_resp" /\ IsOk(last'.json)
           /\ last'.task.via = "click")
          => className'[VoteElemId(last'.task.site)]
               = (IF last'.task.vote = 1 THEN "upvoted" ELSE "unvoted")]_vars

\* the first call of tryvote started without an identity and ended without
\* sending its /vote/ request (its identity request failed); a later call
\* started by a click has just been confirmed and turned its site upvoted
C18_Witness ==
    /\ first # NoFirst /\ ~first.hadId /\ first.voter = Null
    /\ \A i \in 1..Len(tasks) : tasks[i].n # 1
    /\ last.kind = "vote_resp" /\ IsOk(last.json)
    /\ last.task.via = "click" /\ last.task.vote = 1 /\ last.task.n > 1
    /\ className[VoteElemId(last.task.site)] = "upvoted"

\* C19: a turn of a call of tryvote on site X changes the class and the
\* listeners of no other element, and never replaces a stored identity.
C19_Frame ==
    [][/\ last'.kind \in {"id_resp", "vote_resp"}
          => \A e \in ElemsOf(page) \ {VoteElemId(last'.task.site)} :
               className'[e] = className[e] /\ handlers'[e] = handlers[e]
       /\ last'.kind \in {"click", "id_resp", "vote_resp"}
          => ((last'.kind = "click"
                  => className' = className /\ handlers' = handlers)
              /\ (Truthy(store) => store' = store))]_vars

\* C20: the listener tryvote adds on a code-200 response calls tryvote for
\* the same site with the inverse vote.
C20_RegisteredListenerInverts ==
    [][(/\ last'.kind = "vote_resp" /\ IsOk(last'.json)
        /\ last'.task.vote \in {0, 1}
        /\ VoteElemId(last'.task.site) \in ElemsOf(page))
       => LET hs == handlers'[VoteElemId(last'.task.site)]
              h == hs[Len(hs)]
          IN /\ Len(hs) = Len(handlers[VoteElemId(last'.task.site)]) + 1
             /\ h.calls /\ h.id = last'.task.site
             /\ h.vote = 1 - last'.task.vote]_vars

\* C12: when populate_votes has run again and the vote records of the
\* server never changed, every element shows at the end of that run what
\* it showed at the end of the run before.
C12_IdempotentHydration ==
    (hyd.runs >= 1 /\ hyd.pc \in {"returned", "threw"} /\ ~server.changed)
    => hyd.shown = hyd.before

\* a second run has ended on a page that shows a site upvoted
C12_Witness ==
    /\ hyd.runs >= 1 /\ hyd.pc = "returned" /\ ~server.changed
    /\ last.kind = "votes_resp"
    /\ \E e \in ElemsOf(page) : className[e] = "upvoted"

\* C16: when populate_votes has ended and no call is in flight, a site is
\* shown upvoted exactly when the server holds a record of the stored
\* identity for it.
C16_FollowsServerTruth ==
    (hyd.pc = "returned" /\ tasks = <<>>)
    => \A s \in Discovered :
         className[VoteElemId(s)] = "upvoted"
           <=> <<store, s>> \in server.records

====
